---- MODULE Spec2Model ----
(***************************************************************************)
(* MiniSoccer: the member store (MemStorage and DatabaseStorage), the      *)
(* broadcast hub and the moderation operations of DiscordBotService.       *)
(*                                                                         *)
(* Every awaited database or Discord call is one step of a task: the call  *)
(* takes effect and the caller runs on to its next awaited call.  Tasks    *)
(* interleave only at these points.  MemStorage methods contain no real    *)
(* asynchronous call, so each of them is one atomic action.                *)
(***************************************************************************)
EXTENDS Integers, Sequences, FiniteSets, TLC

\* ---- bounds of the model ------------------------------------------------
MaxTime == 2
MaxCash == 1
MaxLogs == 2
MaxPub == 2
MaxTasks == 2
MaxLen == 3
MaxWords == 2
MaxReg == 2

\* 24 hours, in ticks of the model clock (dayAgo.setDate(getDate() - 1))
Day == 1

Ids == {"A", "B"}
Tags == {"r1", "r2"}
RoleLists == {<<>>, <<"r1">>}
Sockets == {"w1", "w2"}
Statuses == {"online", "idle", "dnd", "offline"}
Reasons == {"none", "spam"}
Slots == 1..MaxTasks
\* the characters of message texts and blocked words; texts are sequences
Chars == {"a", "A", "b"}
Words == {<<"A">>, <<"b", "A">>, <<"b", "b">>}

VARIABLES
    backend,    \* "mem" (MemStorage) or "db" (DatabaseStorage)
    blockedWords, \* the blocked_words table: the words of its rows, in insertion order
    members,    \* the member table: a function from the ids present to records
    kickLogs,   \* the action log, in insertion order
    stats,      \* the singleton aggregate record
    statsRow,   \* whether the aggregate exists (the row "main" of server_stats)
    now,        \* the clock
    wsClients,  \* DiscordBotService.wsClients
    closeListeners, \* the 'close' listeners addWebSocketClient has put on each socket
    wsState,    \* readyState of each socket
    inbox,      \* what each socket has been sent, in order
    delivered,  \* how many of them the socket has transmitted to its observer
    pubCount,   \* number of broadcastUpdate calls so far
    task        \* the operations in flight or last completed, one per slot

vars == <<backend, blockedWords, members, kickLogs, stats, statsRow, now,
          wsClients, closeListeners, wsState, inbox, delivered, pubCount, task>>
storeVars == <<members, kickLogs, stats, statsRow>>
hubVars == <<wsClients, closeListeners, wsState, inbox, pubCount>>

\* ---- the store's data ---------------------------------------------------
ZeroStats == [totalMembers |-> 0, onlineMembers |-> 0, activeToday |-> 0, recentKicks |-> 0]

NoMembers == [i \in {} |-> 0]

\* the row written by createMember: defaults for status, roles and cash
NewMember(status, roles, t) ==
    [status |-> status, role |-> "Member", roles |-> roles, cash |-> 0, lastSeen |-> t]

Put(ms, id, rec) == [i \in (DOMAIN ms) \cup {id} |-> IF i = id THEN rec ELSE ms[i]]

Remove(ms, id) == [i \in (DOMAIN ms) \ {id} |-> ms[i]]

Includes(seq, x) == \E i \in 1..Len(seq) : seq[i] = x

Filter(seq, x) == SelectSeq(seq, LAMBDA r : r # x)

\* a window that takes in the member seen exactly a day ago
ActiveAtInclusive(ms, t) == {i \in DOMAIN ms : ms[i].lastSeen >= t - Day}

\* m.lastSeen > dayAgo
ActiveAt(ms, t) == {i \in DOMAIN ms : ms[i].lastSeen > t - Day}

OnlineIn(ms) == {i \in DOMAIN ms : ms[i].status = "online"}

\* the three counts updateMemberCount derives from the member table
MemberCounts(ms, t) ==
    [totalMembers |-> Cardinality(DOMAIN ms),
     onlineMembers |-> Cardinality(OnlineIn(ms)),
     activeToday |-> Cardinality(ActiveAt(ms, t))]

WithCounts(st, c) ==
    [st EXCEPT !.totalMembers = c.totalMembers,
               !.onlineMembers = c.onlineMembers,
               !.activeToday = c.activeToday]

RecentKicks(logs, t) == Cardinality({i \in 1..Len(logs) : logs[i].kickedAt > t - Day})

NewKickLog(id, by, reason, t) ==
    [memberId |-> id, kickedBy |-> by, reason |-> reason, kickedAt |-> t]

\* kick_logs.member_id references discord_members.id
Referenced(logs, id) == \E i \in 1..Len(logs) : logs[i].memberId = id

\* what getStats returns: the row, or the all-zero row it creates when absent
StatsView == IF statsRow THEN stats ELSE ZeroStats

\* ---- tasks --------------------------------------------------------------
NoCounts == [totalMembers |-> 0, onlineMembers |-> 0, activeToday |-> 0]

NoSnapshot == [members |-> NoMembers, kickLogs |-> <<>>, stats |-> ZeroStats,
               statsRow |-> FALSE, pubCount |-> 0]

Snapshot == [members |-> members, kickLogs |-> kickLogs, stats |-> stats,
             statsRow |-> statsRow, pubCount |-> pubCount]

Idle == [op |-> "idle", id |-> "A", arg |-> "none", reason |-> "none",
         amount |-> 0, k |-> <<>>, res |-> "none", at |-> 0,
         counts |-> NoCounts, recent |-> 0, ret |-> "none", roles |-> <<>>,
         did |-> <<>>, pubAt |-> 0, pre |-> NoSnapshot,
         content |-> <<>>, words |-> {}, notice |-> "none",
         row |-> NewMember("offline", <<>>, 0), upstream |-> <<>>, queue |-> <<>>]

NewTask(op, id, arg, reason, k, pre) ==
    [Idle EXCEPT !.op = op, !.id = id, !.arg = arg, !.reason = reason,
                 !.k = k, !.pre = pre]

Running(s) == task[s].k # <<>>
Finished(s) == task[s].op # "idle" /\ task[s].k = <<>>
At(s, label) == Running(s) /\ Head(task[s].k) = label
NoneRunning == \A s \in Slots : ~Running(s)

\* one operation at a time: slot 1 is reused once its operation has returned
SeqStart(s) == s = 1 /\ NoneRunning
\* concurrent operations: slots are taken in arrival order and never reused
ConcStart(s) == task[s].op = "idle" /\ \A r \in Slots : r < s => task[r].op # "idle"

\* the service as it is wired: storage = new DatabaseStorage(), empty tables
Init ==
    /\ backend = "db"
    /\ blockedWords = <<>>
    /\ members = NoMembers
    /\ kickLogs = <<>>
    /\ stats = ZeroStats
    /\ statsRow = FALSE
    /\ now = 0
    /\ wsClients = {}
    /\ closeListeners = [w \in Sockets |-> 0]
    /\ wsState = [w \in Sockets |-> "NEW"]
    /\ inbox = [w \in Sockets |-> <<>>]
    /\ delivered = [w \in Sockets |-> 0]
    /\ pubCount = 0
    /\ task = [s \in Slots |-> Idle]

\* DatabaseStorage after its first getStats(): the all-zero row "main" is there
InitWithStats ==
    /\ backend = "db"
    /\ blockedWords = <<>>
    /\ members = NoMembers
    /\ kickLogs = <<>>
    /\ stats = ZeroStats
    /\ statsRow = TRUE
    /\ now = 0
    /\ wsClients = {}
    /\ closeListeners = [w \in Sockets |-> 0]
    /\ wsState = [w \in Sockets |-> "NEW"]
    /\ inbox = [w \in Sockets |-> <<>>]
    /\ delivered = [w \in Sockets |-> 0]
    /\ pubCount = 0
    /\ task = [s \in Slots |-> Idle]

\* new MemStorage(): empty maps and an all-zero stats object
InitMem ==
    /\ backend = "mem"
    /\ blockedWords = <<>>
    /\ members = NoMembers
    /\ kickLogs = <<>>
    /\ stats = ZeroStats
    /\ statsRow = TRUE
    /\ now = 0
    /\ wsClients = {}
    /\ closeListeners = [w \in Sockets |-> 0]
    /\ wsState = [w \in Sockets |-> "NEW"]
    /\ inbox = [w \in Sockets |-> <<>>]
    /\ delivered = [w \in Sockets |-> 0]
    /\ pubCount = 0
    /\ task = [s \in Slots |-> Idle]

\* time passes between operations
Tick ==
    /\ now < MaxTime
    /\ NoneRunning
    /\ now' = now + 1
    /\ UNCHANGED <<backend, delivered, blockedWords, storeVars, hubVars, task>>

\* ---- BroadcastHub -------------------------------------------------------
\* n numbers the publishes; `connected` carries the number of the last publish
\* before the socket registered
Envelope(n, type, data) == [n |-> n, type |-> type, data |-> data]

\* a send that puts the frame in front of the frames sent before
SendFirst(box, env) == <<env>> \o box

\* ws.send on one socket: the frame is queued behind the frames sent before
Send(box, env) == Append(box, env)

\* the sockets broadcastUpdate sends to
Receivers == {w \in wsClients : wsState[w] = "OPEN"}

\* a hub that keeps its sockets in a list and sends once for each registration
BroadcastPerRegistration(type, data) ==
    [w \in Sockets |->
        IF w \in Receivers
        THEN IF closeListeners[w] > 1
             THEN Send(Send(inbox[w], Envelope(pubCount + 1, type, data)),
                       Envelope(pubCount + 1, type, data))
             ELSE Send(inbox[w], Envelope(pubCount + 1, type, data))
        ELSE inbox[w]]

\* broadcastUpdate(type, data), as the inboxes after the call
Broadcast(type, data) ==
    [w \in Sockets |->
        IF w \in Receivers THEN Send(inbox[w], Envelope(pubCount + 1, type, data))
        ELSE inbox[w]]

Publish(type, data) ==
    /\ inbox' = Broadcast(type, data)
    /\ pubCount' = pubCount + 1

\* addWebSocketClient(ws) for a socket the hub already holds: the Set keeps one
\* element, one more 'close' listener is attached
AddWebSocketClient(w) ==
    /\ wsState[w] \in {"OPEN", "CLOSING"}
    /\ closeListeners[w] < MaxReg
    /\ wsClients' = wsClients \cup {w}
    /\ closeListeners' = [closeListeners EXCEPT ![w] = @ + 1]
    /\ UNCHANGED <<backend, delivered, blockedWords, storeVars, now, wsState, inbox, pubCount, task>>

\* a connection handler that registers the socket and greets it later
ConnectSilent(w) ==
    /\ wsState[w] = "NEW"
    /\ wsClients' = wsClients \cup {w}
    /\ closeListeners' = [closeListeners EXCEPT ![w] = @ + 1]
    /\ wsState' = [wsState EXCEPT ![w] = "OPEN"]
    /\ UNCHANGED <<backend, delivered, blockedWords, storeVars, now, inbox, pubCount, task>>

\* a connection handler that sends the newcomer the latest publish again
ConnectReplay(w) ==
    /\ wsState[w] = "NEW"
    /\ wsClients' = wsClients \cup {w}
    /\ closeListeners' = [closeListeners EXCEPT ![w] = @ + 1]
    /\ wsState' = [wsState EXCEPT ![w] = "OPEN"]
    /\ inbox' = [inbox EXCEPT ![w] =
           IF pubCount > 0
           THEN Send(Send(@, Envelope(pubCount, "connected", [message |-> "Connected"])),
                     Envelope(pubCount, "memberJoin", [message |-> "Connected"]))
           ELSE Send(@, Envelope(pubCount, "connected", [message |-> "Connected"]))]
    /\ UNCHANGED <<backend, delivered, blockedWords, storeVars, now, pubCount, task>>

\* wss.on('connection'): register the socket, then send it `connected`
Connect(w) ==
    /\ wsState[w] = "NEW"
    /\ wsClients' = wsClients \cup {w}
    /\ closeListeners' = [closeListeners EXCEPT ![w] = @ + 1]
    /\ wsState' = [wsState EXCEPT ![w] = "OPEN"]
    /\ inbox' = [inbox EXCEPT ![w] = Send(@, Envelope(pubCount, "connected", [message |-> "Connected"]))]
    /\ UNCHANGED <<backend, delivered, blockedWords, storeVars, now, pubCount, task>>

\* the socket transmits the oldest frame of its send buffer; nothing in the hub
\* waits for it
Drain(w) ==
    /\ wsState[w] = "OPEN"
    /\ delivered[w] < Len(inbox[w])
    /\ delivered' = [delivered EXCEPT ![w] = @ + 1]
    /\ UNCHANGED <<backend, blockedWords, storeVars, now, hubVars, task>>

\* the frames ws.send has queued and the socket has not transmitted
\* (ws.bufferedAmount, in envelopes)
Pending(w) == Len(inbox[w]) - delivered[w]

\* the closing handshake starts: readyState is CLOSING, 'close' not yet emitted
CloseStart(w) ==
    /\ wsState[w] = "OPEN"
    /\ wsState' = [wsState EXCEPT ![w] = "CLOSING"]
    /\ UNCHANGED <<backend, delivered, blockedWords, storeVars, now, wsClients, closeListeners, inbox, pubCount, task>>

\* the socket emits 'close': readyState is CLOSED and the handler unregisters it
CloseFinish(w) ==
    /\ wsState[w] \in {"OPEN", "CLOSING"}
    /\ wsState' = [wsState EXCEPT ![w] = "CLOSED"]
    /\ wsClients' = wsClients \ {w}
    /\ UNCHANGED <<backend, delivered, blockedWords, storeVars, now, closeListeners, inbox, pubCount, task>>

\* ---- how a task goes on after an awaited call ---------------------------
Returned(t, res) == [t EXCEPT !.k = <<>>, !.res = res, !.at = now]

\* the awaited call raised: kickMember and banMember catch and return false,
\* syncMembers catches and logs; a route answers 500 and a gateway handler's
\* promise is rejected
Raised(t) ==
    Returned(t, CASE t.op \in {"kick", "ban"} -> "false"
                  [] t.op = "sync" -> "caught"
                  [] OTHER -> "error")

\* mapPresenceStatus without its cases: the status is stored as received
MapPresenceStatusAsIs(status) == status

\* mapPresenceStatus: the switch and its default
MapPresenceStatus(status) ==
    CASE status = "online" -> "online"
      [] status = "idle" -> "idle"
      [] status = "dnd" -> "dnd"
      [] status \in {"offline", "invisible"} -> "offline"
      [] OTHER -> "offline"

\* syncMembers' loop: createMember for the next member that is no bot, or the
\* end of the loop
SyncNext(t) ==
    IF t.queue = <<>> THEN Returned(t, "ok")
    ELSE [t EXCEPT !.id = Head(t.queue).id,
                   !.arg = MapPresenceStatus(Head(t.queue).status),
                   !.roles = Head(t.queue).roles,
                   !.queue = Tail(t.queue),
                   !.k = <<"insertMember", "syncNext">>]

Published(t, res) ==
    [Returned(t, res) EXCEPT !.did = Append(t.did, "publish"), !.pubAt = pubCount + 1]

\* The code between the last awaited call of a task and its return runs in the
\* same turn of the event loop: the final broadcast and the return value.
\* t is the task after the awaited call, t.k what is left of it; ms is the
\* member table after the call.
Settle(s, t, ms) ==
    LET h == IF t.k = <<>> THEN "end" ELSE Head(t.k) IN
    CASE h = "bcJoined" ->
            /\ Publish("memberJoined", [id |-> t.id, status |-> "offline", role |-> "Member"])
            /\ task' = [task EXCEPT ![s] = Published(t, "ok")]
      [] h = "bcLeft" ->
            /\ Publish("memberLeft", [id |-> t.id])
            /\ task' = [task EXCEPT ![s] = Published(t, "ok")]
      [] h = "bcStatus" /\ t.ret = "member" ->
            /\ Publish("memberStatusUpdate", [id |-> t.id, member |-> t.row])
            /\ task' = [task EXCEPT ![s] = Published(t, "ok")]
      [] h = "bcStatus" /\ t.ret # "member" ->
            /\ UNCHANGED <<inbox, pubCount>>
            /\ task' = [task EXCEPT ![s] = Returned(t, "ok")]
      [] h = "bcKicked" ->
            /\ Publish("memberKicked", [id |-> t.id, reason |-> t.reason])
            /\ task' = [task EXCEPT ![s] = Published(t, "true")]
      [] h = "bcBanned" ->
            /\ Publish("memberBanned", [id |-> t.id, reason |-> t.reason])
            /\ task' = [task EXCEPT ![s] = Published(t, "true")]
      [] h = "ret" ->
            /\ UNCHANGED <<inbox, pubCount>>
            /\ task' = [task EXCEPT ![s] = Returned(t, t.ret)]
      [] h = "syncNext" ->
            /\ UNCHANGED <<inbox, pubCount>>
            /\ task' = [task EXCEPT ![s] = SyncNext(t)]
      [] OTHER ->
            /\ UNCHANGED <<inbox, pubCount>>
            /\ task' = [task EXCEPT ![s] = t]

Pop(t) == [t EXCEPT !.k = Tail(t.k)]
Push(t, labels) == [t EXCEPT !.k = labels \o Tail(t.k)]

\* ---- MemStorage: each method is one atomic action -----------------------
MemReturn(op, id, arg, res) ==
    task' = [task EXCEPT ![1] = Returned(NewTask(op, id, arg, "none", <<>>, Snapshot), res)]

MemReturnCash(op, id, amount, res) ==
    task' = [task EXCEPT ![1] =
                [Returned(NewTask(op, id, "none", "none", <<>>, Snapshot), res) EXCEPT !.amount = amount]]

MemRecount(ms) == stats' = WithCounts(stats, MemberCounts(ms, now))

MemCreateMember(id, status, roles) ==
    /\ backend = "mem"
    /\ members' = Put(members, id, NewMember(status, roles, now))
    /\ MemRecount(members')
    /\ MemReturn("createMember", id, status, "member")
    /\ UNCHANGED <<backend, delivered, blockedWords, kickLogs, statsRow, now, hubVars>>

MemUpdateMember(id, status) ==
    /\ backend = "mem"
    /\ IF id \in DOMAIN members
       THEN /\ members' = Put(members, id, [members[id] EXCEPT !.status = status, !.lastSeen = now])
            /\ MemRecount(members')
            /\ MemReturn("updateMember", id, status, "member")
       ELSE /\ UNCHANGED <<members, stats>>
            /\ MemReturn("updateMember", id, status, "undefined")
    /\ UNCHANGED <<backend, delivered, blockedWords, kickLogs, statsRow, now, hubVars>>

\* a deleteMember that treats an absent id as an error
MemDeleteMemberStrict(id) ==
    /\ backend = "mem"
    /\ IF id \in DOMAIN members
       THEN /\ members' = Remove(members, id)
            /\ MemRecount(members')
            /\ MemReturn("deleteMember", id, "none", "true")
       ELSE /\ UNCHANGED <<members, stats>>
            /\ MemReturn("deleteMember", id, "none", "error")
    /\ UNCHANGED <<backend, delivered, blockedWords, kickLogs, statsRow, now, hubVars>>

MemDeleteMember(id) ==
    /\ backend = "mem"
    /\ IF id \in DOMAIN members
       THEN /\ members' = Remove(members, id)
            /\ MemRecount(members')
            /\ MemReturn("deleteMember", id, "none", "true")
       ELSE /\ UNCHANGED <<members, stats>>
            /\ MemReturn("deleteMember", id, "none", "false")
    /\ UNCHANGED <<backend, delivered, blockedWords, kickLogs, statsRow, now, hubVars>>

MemRemoveAllMembers ==
    /\ backend = "mem"
    /\ members' = NoMembers
    /\ MemRecount(members')
    /\ MemReturn("removeAllMembers", "A", "none", "true")
    /\ UNCHANGED <<backend, delivered, blockedWords, kickLogs, statsRow, now, hubVars>>

MemUpdateMemberCash(id, amount) ==
    /\ backend = "mem"
    /\ IF id \in DOMAIN members
       THEN /\ members' = Put(members, id, [members[id] EXCEPT !.cash = amount, !.lastSeen = now])
            /\ MemReturnCash("updateMemberCash", id, amount, "member")
       ELSE /\ UNCHANGED members
            /\ MemReturnCash("updateMemberCash", id, amount, "undefined")
    /\ UNCHANGED <<backend, delivered, blockedWords, kickLogs, stats, statsRow, now, hubVars>>

\* an addMemberCash that does not let the balance fall below zero
MemAddMemberCashFloored(id, amount) ==
    /\ backend = "mem"
    /\ IF id \in DOMAIN members
       THEN /\ members' = Put(members, id,
                    [members[id] EXCEPT !.cash = IF @ + amount < 0 THEN 0 ELSE @ + amount,
                                        !.lastSeen = now])
            /\ MemReturnCash("addMemberCash", id, amount, "member")
       ELSE /\ UNCHANGED members
            /\ MemReturnCash("addMemberCash", id, amount, "undefined")
    /\ UNCHANGED <<backend, delivered, blockedWords, kickLogs, stats, statsRow, now, hubVars>>

MemAddMemberCash(id, amount) ==
    /\ backend = "mem"
    /\ IF id \in DOMAIN members
       THEN /\ members' = Put(members, id, [members[id] EXCEPT !.cash = @ + amount, !.lastSeen = now])
            /\ MemReturnCash("addMemberCash", id, amount, "member")
       ELSE /\ UNCHANGED members
            /\ MemReturnCash("addMemberCash", id, amount, "undefined")
    /\ UNCHANGED <<backend, delivered, blockedWords, kickLogs, stats, statsRow, now, hubVars>>

\* roles after a push that does not look for the role first
WithRoleAppended(roles, roleId) == Append(roles, roleId)

\* roles after addMemberRole: pushed only when not yet included
WithRole(roles, roleId) == IF Includes(roles, roleId) THEN roles ELSE Append(roles, roleId)

MemAddMemberRole(id, roleId) ==
    /\ backend = "mem"
    /\ IF id \in DOMAIN members
       THEN /\ members' = Put(members, id, [members[id] EXCEPT !.roles = WithRole(@, roleId), !.lastSeen = now])
            /\ MemReturn("addMemberRole", id, roleId, "member")
       ELSE /\ UNCHANGED members
            /\ MemReturn("addMemberRole", id, roleId, "undefined")
    /\ UNCHANGED <<backend, delivered, blockedWords, kickLogs, stats, statsRow, now, hubVars>>

MemRemoveMemberRole(id, roleId) ==
    /\ backend = "mem"
    /\ IF id \in DOMAIN members
       THEN /\ members' = Put(members, id, [members[id] EXCEPT !.roles = Filter(@, roleId), !.lastSeen = now])
            /\ MemReturn("removeMemberRole", id, roleId, "member")
       ELSE /\ UNCHANGED members
            /\ MemReturn("removeMemberRole", id, roleId, "undefined")
    /\ UNCHANGED <<backend, delivered, blockedWords, kickLogs, stats, statsRow, now, hubVars>>

\* ---- DatabaseStorage: one step per awaited query ------------------------
\* INSERT INTO discord_members: the primary key rejects an id already present
DbInsertMember(s) ==
    /\ At(s, "insertMember")
    /\ LET t == task[s] IN
       IF t.id \in DOMAIN members
       THEN /\ UNCHANGED <<members, inbox, pubCount>>
            /\ task' = [task EXCEPT ![s] = Raised(t)]
       ELSE /\ members' = Put(members, t.id, NewMember(t.arg, t.roles, now))
            /\ task' = [task EXCEPT ![s] =
                    Push([t EXCEPT !.ret = "member", !.did = Append(@, "create")],
                         <<"readCounts", "writeStats">>)]
            /\ UNCHANGED <<inbox, pubCount>>
    /\ UNCHANGED <<backend, delivered, blockedWords, kickLogs, stats, statsRow, now, wsClients, closeListeners, wsState>>

\* updateMemberCount, first half: getAllMembers and the three counts
DbReadCounts(s) ==
    /\ At(s, "readCounts")
    /\ task' = [task EXCEPT ![s] = Pop([task[s] EXCEPT !.counts = MemberCounts(members, now)])]
    /\ UNCHANGED <<backend, delivered, blockedWords, storeVars, now, hubVars>>

\* updateStats: UPDATE server_stats ... WHERE id = 'main' (no row, no change)
UpdateStats(st, row, c) == IF row THEN WithCounts(st, c) ELSE st

\* updateMemberCount, second half: updateStats with the counts read before
DbWriteStats(s) ==
    /\ At(s, "writeStats")
    /\ stats' = UpdateStats(stats, statsRow, task[s].counts)
    /\ Settle(s, Pop(task[s]), members)
    /\ UNCHANGED <<backend, delivered, blockedWords, members, kickLogs, statsRow, now, wsClients, closeListeners, wsState>>

\* the `updates` of an updateMember call: a status (presence, provisioning)
\* or the whole roles array (addMemberRole, removeMemberRole)
\* an update that writes a fresh row with the new status
UpdatedAfresh(rec, t) ==
    IF t.op \in {"addMemberRole", "removeMemberRole", "addRoleRoute", "removeRoleRoute"}
    THEN [rec EXCEPT !.roles = t.roles, !.lastSeen = now]
    ELSE NewMember(t.arg, <<>>, now)

Updated(rec, t) ==
    IF t.op \in {"addMemberRole", "removeMemberRole", "addRoleRoute", "removeRoleRoute"}
    THEN [rec EXCEPT !.roles = t.roles, !.lastSeen = now]
    ELSE [rec EXCEPT !.status = t.arg, !.lastSeen = now]

\* an update that creates the row when the id is absent
DbUpdateMemberUpsert(s) ==
    /\ At(s, "updateMember")
    /\ LET t == task[s]
           rec == IF t.id \in DOMAIN members THEN members[t.id] ELSE NewMember(t.arg, <<>>, now) IN
       /\ members' = Put(members, t.id, Updated(rec, t))
       /\ task' = [task EXCEPT ![s] =
               Push([t EXCEPT !.ret = "member", !.row = Updated(rec, t)],
                    <<"readCounts", "writeStats">>)]
       /\ UNCHANGED <<inbox, pubCount>>
    /\ UNCHANGED <<backend, delivered, blockedWords, kickLogs, stats, statsRow, now, wsClients, closeListeners, wsState>>

\* UPDATE discord_members SET ...updates, last_seen WHERE id = ...
DbUpdateMember(s) ==
    /\ At(s, "updateMember")
    /\ LET t == task[s] IN
       IF t.id \in DOMAIN members
       THEN /\ members' = Put(members, t.id, Updated(members[t.id], t))
            /\ task' = [task EXCEPT ![s] =
                    Push([t EXCEPT !.ret = "member", !.row = Updated(members[t.id], t)],
                         <<"readCounts", "writeStats">>)]
            /\ UNCHANGED <<inbox, pubCount>>
       ELSE /\ UNCHANGED members
            /\ Settle(s, Pop([t EXCEPT !.ret = "undefined"]), members)
    /\ UNCHANGED <<backend, delivered, blockedWords, kickLogs, stats, statsRow, now, wsClients, closeListeners, wsState>>

\* a delete that takes the member's kick_logs rows with it
DbDeleteMemberCascade(s) ==
    /\ At(s, "deleteMember")
    /\ LET t == task[s] IN
       IF t.id \in DOMAIN members
       THEN /\ members' = Remove(members, t.id)
            /\ kickLogs' = SelectSeq(kickLogs, LAMBDA l : l.memberId # t.id)
            /\ task' = [task EXCEPT ![s] =
                   Push([t EXCEPT !.ret = "true", !.did = Append(@, "delete")],
                        <<"readCounts", "writeStats">>)]
            /\ UNCHANGED <<inbox, pubCount>>
       ELSE /\ UNCHANGED <<members, kickLogs>>
            /\ Settle(s, Pop([t EXCEPT !.ret = "false"]), members)
    /\ UNCHANGED <<backend, delivered, blockedWords, stats, statsRow, now, wsClients, closeListeners, wsState>>

\* DELETE FROM discord_members WHERE id = ...: refused while a kick_logs row
\* references the member
DbDeleteMember(s) ==
    /\ At(s, "deleteMember")
    /\ LET t == task[s] IN
       IF t.id \in DOMAIN members
       THEN IF Referenced(kickLogs, t.id)
            THEN /\ UNCHANGED <<members, inbox, pubCount>>
                 /\ task' = [task EXCEPT ![s] = Raised(t)]
            ELSE /\ members' = Remove(members, t.id)
                 /\ task' = [task EXCEPT ![s] =
                        Push([t EXCEPT !.ret = "true", !.did = Append(@, "delete")],
                             <<"readCounts", "writeStats">>)]
                 /\ UNCHANGED <<inbox, pubCount>>
       ELSE /\ UNCHANGED members
            /\ Settle(s, Pop([t EXCEPT !.ret = "false"]), members)
    /\ UNCHANGED <<backend, delivered, blockedWords, kickLogs, stats, statsRow, now, wsClients, closeListeners, wsState>>

\* DELETE FROM discord_members: one statement, refused as a whole
DbDeleteAllMembers(s) ==
    /\ At(s, "deleteAllMembers")
    /\ LET t == task[s] IN
       IF \E i \in DOMAIN members : Referenced(kickLogs, i)
       THEN /\ UNCHANGED <<members, inbox, pubCount>>
            /\ task' = [task EXCEPT ![s] = Raised(t)]
       ELSE IF DOMAIN members # {}
            THEN /\ members' = NoMembers
                 /\ task' = [task EXCEPT ![s] = Push([t EXCEPT !.ret = "true"], <<"readCounts", "writeStats">>)]
                 /\ UNCHANGED <<inbox, pubCount>>
            ELSE /\ UNCHANGED members
                 /\ Settle(s, Pop([t EXCEPT !.ret = "false"]), members)
    /\ UNCHANGED <<backend, delivered, blockedWords, kickLogs, stats, statsRow, now, wsClients, closeListeners, wsState>>

\* UPDATE discord_members SET cash = amount, last_seen
DbUpdateMemberCash(s) ==
    /\ At(s, "updateMemberCash")
    /\ LET t == task[s] IN
       IF t.id \in DOMAIN members
       THEN /\ members' = Put(members, t.id, [members[t.id] EXCEPT !.cash = t.amount, !.lastSeen = now])
            /\ Settle(s, Pop([t EXCEPT !.ret = "member"]), members')
       ELSE /\ UNCHANGED members
            /\ Settle(s, Pop([t EXCEPT !.ret = "undefined"]), members)
    /\ UNCHANGED <<backend, delivered, blockedWords, kickLogs, stats, statsRow, now, wsClients, closeListeners, wsState>>

\* UPDATE discord_members SET cash = cash + amount, last_seen
DbAddMemberCash(s) ==
    /\ At(s, "addMemberCash")
    /\ LET t == task[s] IN
       IF t.id \in DOMAIN members
       THEN /\ members' = Put(members, t.id, [members[t.id] EXCEPT !.cash = @ + t.amount, !.lastSeen = now])
            /\ Settle(s, Pop([t EXCEPT !.ret = "member"]), members')
       ELSE /\ UNCHANGED members
            /\ Settle(s, Pop([t EXCEPT !.ret = "undefined"]), members)
    /\ UNCHANGED <<backend, delivered, blockedWords, kickLogs, stats, statsRow, now, wsClients, closeListeners, wsState>>

\* addMemberRole / removeMemberRole, first half: getMember, then the new roles
\* array is computed from the row that was read
DbGetMember(s) ==
    /\ At(s, "getMember")
    /\ LET t == task[s] IN
       IF t.id \in DOMAIN members
       THEN /\ task' = [task EXCEPT ![s] =
                Pop([t EXCEPT !.roles =
                        IF t.op \in {"addMemberRole", "addRoleRoute"}
                        THEN WithRole(members[t.id].roles, t.arg)
                        ELSE Filter(members[t.id].roles, t.arg)])]
            /\ UNCHANGED <<inbox, pubCount>>
       ELSE Settle(s, [t EXCEPT !.ret = "undefined", !.k = <<"ret">>], members)
    /\ UNCHANGED <<backend, delivered, blockedWords, storeVars, now, wsClients, closeListeners, wsState>>

\* INSERT INTO kick_logs: member_id must reference an existing member
DbInsertKickLog(s) ==
    /\ At(s, "insertKickLog")
    /\ LET t == task[s] IN
       IF t.id \in DOMAIN members
       THEN /\ kickLogs' = Append(kickLogs, NewKickLog(t.id, "web-dashboard", t.reason, now))
            /\ task' = [task EXCEPT ![s] =
                    Push([t EXCEPT !.did = Append(@, "log")], <<"readRecentKicks", "writeRecentKicks">>)]
       ELSE /\ UNCHANGED kickLogs
            /\ task' = [task EXCEPT ![s] = Raised(t)]
    /\ UNCHANGED <<backend, delivered, blockedWords, members, stats, statsRow, now, hubVars>>

\* updateRecentKicksCount, first half: COUNT(*) of the last day's log rows
DbReadRecentKicks(s) ==
    /\ At(s, "readRecentKicks")
    /\ task' = [task EXCEPT ![s] = Pop([task[s] EXCEPT !.recent = RecentKicks(kickLogs, now)])]
    /\ UNCHANGED <<backend, delivered, blockedWords, storeVars, now, hubVars>>

\* updateRecentKicksCount, second half: updateStats({recentKicks})
DbWriteRecentKicks(s) ==
    /\ At(s, "writeRecentKicks")
    /\ stats' = IF statsRow THEN [stats EXCEPT !.recentKicks = task[s].recent] ELSE stats
    /\ Settle(s, Pop(task[s]), members)
    /\ UNCHANGED <<backend, delivered, blockedWords, members, kickLogs, statsRow, now, wsClients, closeListeners, wsState>>

\* getStats, first half: select the row "main"
DbSelectStats(s) ==
    /\ At(s, "selectStats")
    /\ IF statsRow
       THEN Settle(s, Pop([task[s] EXCEPT !.ret = "stats"]), members)
       ELSE /\ task' = [task EXCEPT ![s] = Push(task[s], <<"insertStats">>)]
            /\ UNCHANGED <<inbox, pubCount>>
    /\ UNCHANGED <<backend, delivered, blockedWords, storeVars, now, wsClients, closeListeners, wsState>>

\* getStats, second half: insert the all-zero row (the primary key rejects a
\* second row "main")
DbInsertStats(s) ==
    /\ At(s, "insertStats")
    /\ IF statsRow
       THEN /\ UNCHANGED <<stats, statsRow, inbox, pubCount>>
            /\ task' = [task EXCEPT ![s] = Raised(task[s])]
       ELSE /\ stats' = ZeroStats
            /\ statsRow' = TRUE
            /\ Settle(s, Pop([task[s] EXCEPT !.ret = "stats"]), members)
    /\ UNCHANGED <<backend, delivered, blockedWords, members, kickLogs, now, wsClients, closeListeners, wsState>>

\* ---- calls of DatabaseStorage methods (the routes, provisioning) --------
Call(s, t) ==
    /\ backend = "db"
    /\ task' = [task EXCEPT ![s] = t]
    /\ UNCHANGED <<backend, delivered, blockedWords, storeVars, now, hubVars>>

CreateMemberCall(s, id, status, roles) ==
    Call(s, [NewTask("createMember", id, status, "none", <<"insertMember", "ret">>, Snapshot)
                EXCEPT !.roles = roles])

UpdateMemberCall(s, id, status) ==
    Call(s, NewTask("updateMember", id, status, "none", <<"updateMember", "ret">>, Snapshot))

DeleteMemberCall(s, id) ==
    Call(s, NewTask("deleteMember", id, "none", "none", <<"deleteMember", "ret">>, Snapshot))

RemoveAllMembersCall(s) ==
    Call(s, NewTask("removeAllMembers", "A", "none", "none", <<"deleteAllMembers", "ret">>, Snapshot))

UpdateMemberCashCall(s, id, amount) ==
    Call(s, [NewTask("updateMemberCash", id, "none", "none", <<"updateMemberCash", "ret">>, Snapshot)
                EXCEPT !.amount = amount])

AddMemberCashCall(s, id, amount) ==
    Call(s, [NewTask("addMemberCash", id, "none", "none", <<"addMemberCash", "ret">>, Snapshot)
                EXCEPT !.amount = amount])

AddMemberRoleCall(s, id, roleId) ==
    Call(s, NewTask("addMemberRole", id, roleId, "none", <<"getMember", "updateMember", "ret">>, Snapshot))

RemoveMemberRoleCall(s, id, roleId) ==
    Call(s, NewTask("removeMemberRole", id, roleId, "none", <<"getMember", "updateMember", "ret">>, Snapshot))

GetStatsCall(s) ==
    Call(s, NewTask("getStats", "A", "none", "none", <<"selectStats", "ret">>, Snapshot))

\* ---- gateway event handlers ---------------------------------------------
\* Events.GuildMemberAdd: createMember with status offline, then memberJoined
GuildMemberAdd(s, id) ==
    Call(s, NewTask("join", id, "offline", "none", <<"insertMember", "bcJoined">>, Snapshot))

\* Events.GuildMemberRemove: deleteMember, then memberLeft
GuildMemberRemove(s, id) ==
    Call(s, NewTask("leave", id, "none", "none", <<"deleteMember", "bcLeft">>, Snapshot))

\* ---- moderation: kickMember and banMember -------------------------------
\* the direct notice: with sendInvite an invite is minted first; without it a
\* notice is sent only when a reason is given
NoticeSteps(reason, sendInvite) ==
    IF sendInvite THEN <<"createInvite", "sendNotice">>
    ELSE IF reason # "none" THEN <<"sendNotice">>
    ELSE <<>>

\* a kickMember that writes the log before the enforcement call
KickStepsLogFirst(reason, sendInvite) ==
    <<"fetchMember">> \o NoticeSteps(reason, sendInvite)
        \o <<"insertKickLog", "enforce", "deleteMember", "bcKicked">>

KickSteps(reason, sendInvite) ==
    <<"fetchMember">> \o NoticeSteps(reason, sendInvite)
        \o <<"enforce", "insertKickLog", "deleteMember", "bcKicked">>

BanSteps(reason, sendInvite) ==
    <<"fetchMember">> \o NoticeSteps(reason, sendInvite)
        \o <<"enforce", "deleteMember", "bcBanned">>

\* kickMember up to its first awaited call; without a guild it returns false
KickMemberCall(s, id, reason, sendInvite, guildOk) ==
    Call(s, IF guildOk
            THEN NewTask("kick", id, "none", reason, KickSteps(reason, sendInvite), Snapshot)
            ELSE Returned(NewTask("kick", id, "none", reason, <<>>, Snapshot), "false"))

BanMemberCall(s, id, reason, sendInvite, guildOk) ==
    Call(s, IF guildOk
            THEN NewTask("ban", id, "none", reason, BanSteps(reason, sendInvite), Snapshot)
            ELSE Returned(NewTask("ban", id, "none", reason, <<>>, Snapshot), "false"))

\* guild.members.fetch(memberId): the member, nothing, or an error
FetchMember(s, outcome) ==
    /\ At(s, "fetchMember")
    /\ task' = [task EXCEPT ![s] =
            IF outcome = "ok" THEN Pop(task[s]) ELSE Returned(task[s], "false")]
    /\ UNCHANGED <<backend, delivered, blockedWords, storeVars, now, hubVars>>

\* guild.invites.create: an error skips the notice as well (one try block)
CreateInvite(s, ok) ==
    /\ At(s, "createInvite")
    /\ task' = [task EXCEPT ![s] =
           IF ok THEN Pop(task[s])
           ELSE Pop(Pop([task[s] EXCEPT !.notice = "failed"]))]
    /\ UNCHANGED <<backend, delivered, blockedWords, storeVars, now, hubVars>>

\* member.send: an error is caught and logged
SendNotice(s, ok) ==
    /\ At(s, "sendNotice")
    /\ task' = [task EXCEPT ![s] =
           Pop([task[s] EXCEPT !.notice = IF ok THEN "sent" ELSE "failed"])]
    /\ UNCHANGED <<backend, delivered, blockedWords, storeVars, now, hubVars>>

\* the promise of guild.invites.create or member.send never settles: the
\* await has no timeout, the call is neither resumed nor abandoned
NoticeStalls(s) ==
    /\ At(s, "createInvite") \/ At(s, "sendNotice")
    /\ task[s].notice # "stalled"
    /\ task' = [task EXCEPT ![s].notice = "stalled"]
    /\ UNCHANGED <<backend, delivered, blockedWords, storeVars, now, hubVars>>

\* the awaited call of the task will be answered
Answered(s) == task[s].notice # "stalled"

\* what the task does once the enforcement call has returned
AfterEnforce(t, ok) ==
    IF ok THEN Pop([t EXCEPT !.did = Append(@, "enforce")])
    ELSE Raised([t EXCEPT !.did = Append(@, "enforceFailed")])

\* member.kick(reason) / guild.bans.create(member, {reason})
Enforce(s, ok) ==
    /\ At(s, "enforce")
    /\ task' = [task EXCEPT ![s] = AfterEnforce(task[s], ok)]
    /\ UNCHANGED <<backend, delivered, blockedWords, storeVars, now, hubVars>>


\* ---- POST /api/members/:id/roles ----------------------------------------
\* discordBot.addMemberRole, then storage.addMemberRole when it returned true
AddRoleRouteCall(s, id, roleId, guildOk) ==
    Call(s, IF guildOk
            THEN NewTask("addRoleRoute", id, roleId, "none",
                         <<"fetchForRole", "memberRolesAdd", "getMember", "updateMember", "ret">>,
                         Snapshot)
            ELSE Returned(NewTask("addRoleRoute", id, roleId, "none", <<>>, Snapshot), "false"))

\* DELETE /api/members/:id/roles/:roleId: discordBot.removeMemberRole, then
\* storage.removeMemberRole when it returned true
RemoveRoleRouteCall(s, id, roleId, guildOk) ==
    Call(s, IF guildOk
            THEN NewTask("removeRoleRoute", id, roleId, "none",
                         <<"fetchForRole", "memberRolesRemove", "getMember", "updateMember", "ret">>,
                         Snapshot)
            ELSE Returned(NewTask("removeRoleRoute", id, roleId, "none", <<>>, Snapshot), "false"))

\* guild.members.fetch and guild.roles.cache.get: both found, one missing, or
\* an error
FetchForRole(s, outcome) ==
    /\ At(s, "fetchForRole")
    /\ task' = [task EXCEPT ![s] =
            IF outcome = "ok" THEN Pop(task[s]) ELSE Returned(task[s], "false")]
    /\ UNCHANGED <<backend, delivered, blockedWords, storeVars, now, hubVars>>

\* the external role call and the broadcast that follows it in the try block
RoleCall(s, label, type, ok) ==
    /\ At(s, label)
    /\ IF ok
       THEN /\ Publish(type, [id |-> task[s].id, roleId |-> task[s].arg])
            /\ task' = [task EXCEPT ![s] =
                    Pop([task[s] EXCEPT !.did = Append(@, "publish"), !.pubAt = pubCount + 1])]
       ELSE /\ UNCHANGED <<inbox, pubCount>>
            /\ task' = [task EXCEPT ![s] =
                    Returned([task[s] EXCEPT !.did = Append(@, "enforceFailed")], "false")]
    /\ UNCHANGED <<backend, delivered, blockedWords, storeVars, now, wsClients, closeListeners, wsState>>

\* a role call whose broadcast does not wait for the call's outcome
MemberRolesAddEager(s, ok) ==
    /\ At(s, "memberRolesAdd")
    /\ Publish("memberRoleAdded", [id |-> task[s].id, roleId |-> task[s].arg])
    /\ task' = [task EXCEPT ![s] =
            IF ok THEN Pop([task[s] EXCEPT !.did = Append(@, "publish"), !.pubAt = pubCount + 1])
            ELSE Returned([task[s] EXCEPT !.did = Append(@, "enforceFailed")], "false")]
    /\ UNCHANGED <<backend, delivered, blockedWords, storeVars, now, wsClients, closeListeners, wsState>>

\* member.roles.add(role), then memberRoleAdded is broadcast
MemberRolesAdd(s, ok) == RoleCall(s, "memberRolesAdd", "memberRoleAdded", ok)

\* member.roles.remove(role), then memberRoleRemoved is broadcast
MemberRolesRemove(s, ok) == RoleCall(s, "memberRolesRemove", "memberRoleRemoved", ok)

\* ---- the cash routes ----------------------------------------------------
\* a PUT route that hands every amount to the store
PutCashRouteUnchecked(s, id, amount) ==
    \/ UpdateMemberCashCall(s, id, amount)
    \/ MemUpdateMemberCash(id, amount)

\* PUT /api/members/:id/cash: amount must pass z.number().min(0), else 400;
\* then storage.updateMemberCash
PutCashRoute(s, id, amount) ==
    IF amount < 0
    THEN /\ task' = [task EXCEPT ![s] =
                [Returned(NewTask("updateMemberCash", id, "none", "none", <<>>, Snapshot), "invalid")
                    EXCEPT !.amount = amount]]
         /\ UNCHANGED <<backend, delivered, blockedWords, storeVars, now, hubVars>>
    ELSE \/ UpdateMemberCashCall(s, id, amount)
         \/ MemUpdateMemberCash(id, amount)

\* POST /api/members/:id/cash/add: any number, then storage.addMemberCash
AddCashRoute(s, id, amount) ==
    \/ AddMemberCashCall(s, id, amount)
    \/ MemAddMemberCash(id, amount)

\* ---- the message filter -------------------------------------------------
\* a lowering that leaves every letter as it is
ToLowerCaseNoop(str) == str

\* String.prototype.toLowerCase
ToLowerCase(str) == [i \in 1..Len(str) |-> IF str[i] = "A" THEN "a" ELSE str[i]]

\* String.prototype.includes: the word starts at some position of the text
StringIncludes(text, word) ==
    \E i \in 1..(Len(text) - Len(word) + 1) :
        \A j \in 1..Len(word) : text[i + j - 1] = word[j]

\* blockedWords.some(w => messageContent.includes(w.word.toLowerCase()))
ContainsBlockedWord(content, words) ==
    \E w \in words : StringIncludes(ToLowerCase(content), ToLowerCase(w))

Texts == UNION {[1..n -> Chars] : n \in 0..MaxLen}

\* addBlockedWord: blocked_words.word is unique in the database, where a
\* second row with the word is refused; MemStorage keys its map by a fresh
\* uuid and stores every word it is given
InsertBlockedWord(rows, word, unique) ==
    IF unique /\ Includes(rows, word) THEN rows ELSE Append(rows, word)

\* POST /api/blocked-words: the word is stored as given
AddBlockedWord(word) ==
    /\ Len(blockedWords) < MaxWords
    /\ blockedWords' = InsertBlockedWord(blockedWords, word, backend = "db")
    /\ UNCHANGED <<backend, delivered, storeVars, now, hubVars, task>>

\* DELETE /api/blocked-words/:id: the row with that id goes
RemoveBlockedWord(i) ==
    /\ i \in 1..Len(blockedWords)
    /\ blockedWords' = [k \in 1..(Len(blockedWords) - 1) |->
                            IF k < i THEN blockedWords[k] ELSE blockedWords[k + 1]]
    /\ UNCHANGED <<backend, delivered, storeVars, now, hubVars, task>>

\* Events.MessageCreate: messages of bots are ignored, the others filtered
\* who wrote the message: message.author.bot
Author(bot) == IF bot THEN "bot" ELSE "user"

\* a handler that passes every message to the filter, bots' messages too
MessageCreateBotsToo(s, id, content, bot) ==
    /\ task' = [task EXCEPT ![s] =
            [NewTask("filter", id, Author(bot), "none",
                     <<"getAllBlockedWords", "messageDelete", "channelSend">>, Snapshot)
                EXCEPT !.content = content]]
    /\ UNCHANGED <<backend, delivered, blockedWords, storeVars, now, hubVars>>

MessageCreate(s, id, content, bot) ==
    /\ task' = [task EXCEPT ![s] =
            IF bot
            THEN [Returned(NewTask("filter", id, Author(bot), "none", <<>>, Snapshot), "ignored")
                     EXCEPT !.content = content]
            ELSE [NewTask("filter", id, Author(bot), "none",
                          <<"getAllBlockedWords", "messageDelete", "channelSend">>, Snapshot)
                     EXCEPT !.content = content]]
    /\ UNCHANGED <<backend, delivered, blockedWords, storeVars, now, hubVars>>

\* storage.getAllBlockedWords, then the match; without a match the handler
\* returns
GetAllBlockedWords(s) ==
    /\ At(s, "getAllBlockedWords")
    /\ LET t == [task[s] EXCEPT !.words = {blockedWords[i] : i \in 1..Len(blockedWords)}] IN
       task' = [task EXCEPT ![s] =
            IF ContainsBlockedWord(t.content, t.words)
            THEN Pop([t EXCEPT !.ret = "match"])
            ELSE Returned([t EXCEPT !.ret = "nomatch"], "ok")]
    /\ UNCHANGED <<backend, delivered, blockedWords, storeVars, now, hubVars>>

\* message.delete(): when it raises, the outer catch logs and the handler ends
MessageDelete(s, ok) ==
    /\ At(s, "messageDelete")
    /\ task' = [task EXCEPT ![s] =
            IF ok THEN Pop([task[s] EXCEPT !.did = Append(@, "remove")])
            ELSE Returned(task[s], "caught")]
    /\ UNCHANGED <<backend, delivered, blockedWords, storeVars, now, hubVars>>

\* message.channel.send (its own try/catch), then messageFiltered is broadcast
ChannelSend(s, ok) ==
    /\ At(s, "channelSend")
    /\ Publish("messageFiltered",
               [userId |-> task[s].id, username |-> task[s].id,
                content |-> task[s].content, timestamp |-> now])
    /\ task' = [task EXCEPT ![s] =
            Published([task[s] EXCEPT !.did = IF ok THEN Append(@, "notice") ELSE @], "ok")]
    /\ UNCHANGED <<backend, delivered, blockedWords, storeVars, now, wsClients, closeListeners, wsState>>

\* ---- presence events and the snapshot sync -----------------------------
\* what Discord reports as a presence status (undefined: no presence known)
RawStatuses == {"online", "idle", "dnd", "offline", "invisible", "undefined", "streaming"}

\* Events.PresenceUpdate: nothing without newPresence.member; else updateMember
\* with the mapped status, and memberStatusUpdate when a row came back
PresenceUpdate(s, id, status, hasMember) ==
    Call(s, IF hasMember
            THEN [NewTask("presence", id, MapPresenceStatus(status), "none",
                          <<"updateMember", "bcStatus">>, Snapshot)
                     EXCEPT !.content = <<status>>]
            ELSE Returned(NewTask("presence", id, "none", "none", <<>>, Snapshot), "ignored"))

\* the members guild.members.fetch() can return: id, bot flag, presence, roles
UpstreamMembers ==
    [id : Ids, bot : BOOLEAN, status : {"online", "invisible", "undefined"}, roles : RoleLists]

Upstreams ==
    {<<>>} \cup {<<m>> : m \in UpstreamMembers}
           \cup {<<m, n>> : m \in {x \in UpstreamMembers : x.id = "A"},
                            n \in {x \in UpstreamMembers : x.id = "B"}}

\* the member lists whose members are online and have no roles
SmallUpstreams ==
    {u \in Upstreams : \A i \in 1..Len(u) : u[i].roles = <<>> /\ u[i].status = "online"}

NonBots(upstream) == SelectSeq(upstream, LAMBDA m : ~m.bot)

\* MemStorage.createMember for every member of the queue, in order
RECURSIVE MemCreateAll(_, _, _)
MemCreateAll(ms, queue, t) ==
    IF queue = <<>> THEN ms
    ELSE MemCreateAll(Put(ms, Head(queue).id,
                          NewMember(MapPresenceStatus(Head(queue).status), Head(queue).roles, t)),
                      Tail(queue), t)

\* syncMembers is called: without a guild it returns at once
SyncMembersCall(s, guildOk) ==
    /\ task' = [task EXCEPT ![s] =
            IF guildOk THEN NewTask("sync", "A", "none", "none", <<"fetchMembers">>, Snapshot)
            ELSE Returned(NewTask("sync", "A", "none", "none", <<>>, Snapshot), "noGuild")]
    /\ UNCHANGED <<backend, delivered, blockedWords, storeVars, now, hubVars>>

\* guild.members.fetch() answers: the loop starts.  On MemStorage no call of
\* the loop waits for anything, so the loop runs to its end in this step.
FetchMembers(s, upstream, ok) ==
    /\ At(s, "fetchMembers")
    /\ LET t == [task[s] EXCEPT !.upstream = upstream, !.queue = NonBots(upstream)] IN
       IF ~ok
       THEN /\ task' = [task EXCEPT ![s] = Raised(task[s])]
            /\ UNCHANGED <<members, stats>>
       ELSE IF backend = "mem"
            THEN /\ members' = MemCreateAll(members, t.queue, now)
                 /\ stats' = IF t.queue = <<>> THEN stats
                             ELSE WithCounts(stats, MemberCounts(members', now))
                 /\ task' = [task EXCEPT ![s] = Returned([t EXCEPT !.queue = <<>>], "ok")]
            ELSE /\ task' = [task EXCEPT ![s] = SyncNext(t)]
                 /\ UNCHANGED <<members, stats>>
    /\ UNCHANGED <<backend, delivered, blockedWords, kickLogs, statsRow, now, hubVars>>

\* ---- specifications -----------------------------------------------------
Amounts == 0..MaxCash
Deltas == {-1, 1}
\* the statuses the store-level specifications write
StoreStatuses == {"online", "offline"}

\* the responses have been sent: the slots are free again
Reap ==
    /\ NoneRunning
    /\ \E s \in Slots : task[s].op # "idle"
    /\ task' = [s \in Slots |-> Idle]
    /\ UNCHANGED <<backend, delivered, blockedWords, storeVars, now, hubVars>>

\* the steps of DatabaseStorage's member and stats methods
StoreStep(s) ==
    \/ DbInsertMember(s)
    \/ DbReadCounts(s)
    \/ DbWriteStats(s)
    \/ DbDeleteMember(s)

\* the steps of kickMember and banMember
ModerationStep(s) ==
    \/ \E outcome \in {"ok", "null", "throw"} : FetchMember(s, outcome)
    \/ \E ok \in BOOLEAN : CreateInvite(s, ok)
    \/ \E ok \in BOOLEAN : SendNotice(s, ok)
    \/ \E ok \in BOOLEAN : Enforce(s, ok)
    \/ DbInsertKickLog(s)
    \/ DbReadRecentKicks(s)
    \/ DbWriteRecentKicks(s)

\* The moderation operations on DatabaseStorage: one join event or dashboard
\* request at a time, an observer connecting at any moment.
Next ==
    \/ Connect("w1")
    \/ \E id \in Ids : SeqStart(1) /\ pubCount < MaxPub /\ GuildMemberAdd(1, id)
    \/ \E id \in Ids, reason \in Reasons, sendInvite \in BOOLEAN, guildOk \in BOOLEAN :
          SeqStart(1) /\ pubCount < MaxPub /\ Len(kickLogs) < MaxLogs
              /\ KickMemberCall(1, id, reason, sendInvite, guildOk)
    \/ \E id \in Ids, reason \in Reasons, sendInvite \in BOOLEAN, guildOk \in BOOLEAN :
          SeqStart(1) /\ pubCount < MaxPub
              /\ BanMemberCall(1, id, reason, sendInvite, guildOk)
    \/ SeqStart(1) /\ GetStatsCall(1)
    \/ DbSelectStats(1)
    \/ DbInsertStats(1)
    \/ StoreStep(1)
    \/ ModerationStep(1)

Spec == Init /\ [][Next]_vars

\* The broadcast hub: observers connect and close while join and leave events
\* are handled one at a time.
NextHub ==
    \/ \E w \in Sockets : Connect(w)
    \/ \E w \in Sockets : AddWebSocketClient(w)
    \/ \E w \in Sockets : CloseStart(w)
    \/ \E w \in Sockets : CloseFinish(w)
    \/ \E id \in Ids : SeqStart(1) /\ pubCount < MaxPub /\ GuildMemberAdd(1, id)
    \/ \E id \in Ids : SeqStart(1) /\ pubCount < MaxPub /\ GuildMemberRemove(1, id)
    \/ StoreStep(1)

SpecHub == Init /\ [][NextHub]_vars

\* Fanout to observers that drain their send buffers at their own pace, or not
\* at all, while join and leave events are handled one at a time.
NextFanout ==
    \/ \E w \in Sockets : Connect(w)
    \/ \E w \in Sockets : Drain(w)
    \/ \E w \in Sockets : CloseFinish(w)
    \/ \E id \in Ids : SeqStart(1) /\ pubCount < MaxPub /\ GuildMemberAdd(1, id)
    \/ \E id \in Ids : SeqStart(1) /\ pubCount < MaxPub /\ GuildMemberRemove(1, id)
    \/ StoreStep(1)

SpecFanout == Init /\ [][NextFanout]_vars

\* MemStorage alone, its methods called one after the other
NextMem ==
    \/ Tick
    \/ \E id \in Ids, status \in StoreStatuses : MemCreateMember(id, status, <<>>)
    \/ \E id \in Ids, status \in StoreStatuses : MemUpdateMember(id, status)
    \/ \E id \in Ids : MemDeleteMember(id)
    \/ MemRemoveAllMembers
    \/ \E id \in Ids, amount \in Amounts : MemUpdateMemberCash(id, amount)
    \/ \E id \in Ids, amount \in Deltas :
          (id \in DOMAIN members => members[id].cash + amount \in -MaxCash..MaxCash)
              /\ MemAddMemberCash(id, amount)
    \/ \E id \in Ids : MemAddMemberRole(id, "r1")
    \/ \E id \in Ids : MemRemoveMemberRole(id, "r1")

SpecMem == InitMem /\ [][NextMem]_vars

\* The members table of either storage class with time passing: records are
\* created and deleted, one call after the other, and every call recomputes
\* the aggregate.
NextWindow ==
    \/ Tick
    \/ \E id \in Ids, status \in StoreStatuses : MemCreateMember(id, status, <<>>)
    \/ \E id \in Ids : MemDeleteMember(id)
    \/ MemRemoveAllMembers
    \/ \E id \in Ids, status \in StoreStatuses :
          backend = "db" /\ SeqStart(1) /\ CreateMemberCall(1, id, status, <<>>)
    \/ \E id \in Ids : backend = "db" /\ SeqStart(1) /\ DeleteMemberCall(1, id)
    \/ StoreStep(1)

SpecWindow == (InitWithStats \/ InitMem) /\ [][NextWindow]_vars

\* DatabaseStorage alone: members created, updated and deleted and the
\* aggregate read, one call after the other
NextDb ==
    \/ \E id \in Ids, status \in StoreStatuses :
          SeqStart(1) /\ CreateMemberCall(1, id, status, <<>>)
    \/ \E id \in Ids, status \in StoreStatuses : SeqStart(1) /\ UpdateMemberCall(1, id, status)
    \/ \E id \in Ids : SeqStart(1) /\ DeleteMemberCall(1, id)
    \/ SeqStart(1) /\ RemoveAllMembersCall(1)
    \/ SeqStart(1) /\ GetStatsCall(1)
    \/ DbSelectStats(1)
    \/ DbInsertStats(1)
    \/ StoreStep(1)
    \/ DbUpdateMember(1)
    \/ DbDeleteAllMembers(1)

SpecDb == Init /\ [][NextDb]_vars

\* Gateway events: every join and leave event starts its handler when it
\* arrives; the handlers run concurrently, each resumed when its own query
\* has been answered.
InFlight == Cardinality({s \in Slots : Running(s)})

NextGateway ==
    \/ \E s \in Slots, id \in Ids :
          ConcStart(s) /\ pubCount + InFlight < MaxPub /\ GuildMemberAdd(s, id)
    \/ \E s \in Slots, id \in Ids :
          ConcStart(s) /\ pubCount + InFlight < MaxPub /\ GuildMemberRemove(s, id)
    \/ \E s \in Slots : StoreStep(s)
    \/ Reap

SpecGateway == Init /\ [][NextGateway]_vars

\* The same events on a database whose stats row exists already, so that
\* every updateMemberCount writes the count it has read.
SpecCounts == InitWithStats /\ [][NextGateway]_vars

\* Role requests: members are provisioned, then POST .../roles requests are
\* served concurrently.
NextRoles ==
    \/ \E s \in Slots, id \in Ids : ConcStart(s) /\ NoneRunning /\ CreateMemberCall(s, id, "offline", <<>>)
    \/ \E s \in Slots, id \in Ids, roleId \in Tags, guildOk \in BOOLEAN :
          ConcStart(s) /\ pubCount + InFlight < MaxPub /\ AddRoleRouteCall(s, id, roleId, guildOk)
    \/ \E s \in Slots, outcome \in {"ok", "missing", "throw"} : FetchForRole(s, outcome)
    \/ \E s \in Slots, ok \in BOOLEAN : MemberRolesAdd(s, ok)
    \/ \E s \in Slots : DbGetMember(s)
    \/ \E s \in Slots : DbUpdateMember(s)
    \/ \E s \in Slots : DbInsertMember(s)
    \/ \E s \in Slots : DbReadCounts(s)
    \/ \E s \in Slots : DbWriteStats(s)
    \/ Reap

SpecRoles == Init /\ [][NextRoles]_vars

\* The message filter: blocked words are added and removed and messages are
\* handled one at a time.
NextFilter ==
    \/ \E word \in Words : AddBlockedWord(word)
    \/ \E i \in 1..MaxWords : RemoveBlockedWord(i)
    \/ \E content \in Texts :
          SeqStart(1) /\ pubCount < MaxPub /\ MessageCreate(1, "A", content, FALSE)
    \/ SeqStart(1) /\ pubCount < MaxPub /\ MessageCreate(1, "B", <<"b">>, TRUE)
    \/ GetAllBlockedWords(1)
    \/ \E ok \in BOOLEAN : MessageDelete(1, ok)
    \/ \E ok \in BOOLEAN : ChannelSend(1, ok)

SpecFilter == Init /\ [][NextFilter]_vars

\* Message posts next to the events that write the store: members join, words
\* are blocked, people and bots post, one thing at a time, while an observer
\* may be connected.
Posts == {<<"b">>, <<"b", "A">>}

NextPost ==
    \/ Connect("w1")
    \/ AddBlockedWord(<<"A">>)
    \/ \E id \in Ids : SeqStart(1) /\ pubCount < MaxPub /\ GuildMemberAdd(1, id)
    \/ \E content \in Posts, bot \in BOOLEAN :
          SeqStart(1) /\ pubCount < MaxPub /\ MessageCreate(1, "A", content, bot)
    \/ DbInsertMember(1)
    \/ DbReadCounts(1)
    \/ DbWriteStats(1)
    \/ GetAllBlockedWords(1)
    \/ \E ok \in BOOLEAN : MessageDelete(1, ok)
    \/ \E ok \in BOOLEAN : ChannelSend(1, ok)

SpecPost == Init /\ [][NextPost]_vars

\* The snapshot sync on DatabaseStorage: members join, the sync runs, one
\* thing at a time.
NextSync ==
    \/ \E id \in Ids : SeqStart(1) /\ pubCount < MaxPub /\ GuildMemberAdd(1, id)
    \/ \E guildOk \in BOOLEAN : SeqStart(1) /\ SyncMembersCall(1, guildOk)
    \/ \E upstream \in Upstreams, ok \in BOOLEAN : FetchMembers(1, upstream, ok)
    \/ DbInsertMember(1)
    \/ DbReadCounts(1)
    \/ DbWriteStats(1)

SpecSync == Init /\ [][NextSync]_vars

\* The snapshot sync on MemStorage, run again and again while time passes.
NextSyncMem ==
    \/ Tick
    \/ \E s \in Slots, guildOk \in BOOLEAN : ConcStart(s) /\ NoneRunning /\ SyncMembersCall(s, guildOk)
    \/ \E s \in Slots, upstream \in SmallUpstreams, ok \in BOOLEAN : FetchMembers(s, upstream, ok)
    \/ Reap

SpecSyncMem == InitMem /\ [][NextSyncMem]_vars

\* Members that hold a balance are sighted again: on either storage class
\* members are provisioned, balances are set, and the snapshot sync and join
\* events arrive for ids the store may already hold, one thing at a time.
NextResight ==
    \/ \E id \in Ids : NoneRunning /\ MemCreateMember(id, "offline", <<>>)
    \/ \E id \in Ids, amount \in Amounts : NoneRunning /\ MemUpdateMemberCash(id, amount)
    \/ \E id \in Ids : backend = "db" /\ SeqStart(1) /\ CreateMemberCall(1, id, "offline", <<>>)
    \/ \E id \in Ids, amount \in Amounts :
          backend = "db" /\ SeqStart(1) /\ UpdateMemberCashCall(1, id, amount)
    \/ \E id \in Ids :
          backend = "db" /\ SeqStart(1) /\ pubCount < MaxPub /\ GuildMemberAdd(1, id)
    \/ \E guildOk \in BOOLEAN : SeqStart(1) /\ SyncMembersCall(1, guildOk)
    \/ \E upstream \in SmallUpstreams, ok \in BOOLEAN : FetchMembers(1, upstream, ok)
    \/ DbInsertMember(1)
    \/ DbReadCounts(1)
    \/ DbWriteStats(1)
    \/ DbUpdateMemberCash(1)

\* a syncMembers call is inside its loop over the list it fetched
Iterating(s) == task[s].op = "sync" /\ Running(s) /\ ~At(s, "fetchMembers")

\* The snapshot sync with leave events arriving while it iterates: the sync
\* waits for each createMember, and a leave handler runs in between.
NextDeparture ==
    \/ \E s \in Slots : ConcStart(s) /\ NoneRunning /\ SyncMembersCall(s, TRUE)
    \/ \E s \in Slots, upstream \in SmallUpstreams : FetchMembers(s, upstream, TRUE)
    \/ \E s \in Slots, id \in Ids :
          /\ ConcStart(s)
          /\ pubCount < MaxPub
          /\ \E r \in Slots : Iterating(r)
          /\ GuildMemberRemove(s, id)
    \/ \E s \in Slots : StoreStep(s)
    \/ Reap

SpecDeparture == InitWithStats /\ [][NextDeparture]_vars

SpecResight == (InitWithStats \/ InitMem) /\ [][NextResight]_vars

\* Presence: members join, time passes and presence events are handled, one
\* thing at a time.
NextPresence ==
    \/ Tick
    \/ \E id \in Ids : SeqStart(1) /\ pubCount < MaxPub /\ GuildMemberAdd(1, id)
    \/ \E id \in Ids, status \in RawStatuses, hasMember \in BOOLEAN :
          SeqStart(1) /\ pubCount < MaxPub /\ PresenceUpdate(1, id, status, hasMember)
    \/ DbInsertMember(1)
    \/ DbUpdateMember(1)
    \/ DbReadCounts(1)
    \/ DbWriteStats(1)

SpecPresence == Init /\ [][NextPresence]_vars

\* Presence events for members that carry role tags and a balance: members
\* are provisioned, balances are set, presence changes arrive, one thing at a
\* time.
NextFrame ==
    \/ Tick
    \/ \E id \in Ids, roles \in RoleLists :
          SeqStart(1) /\ CreateMemberCall(1, id, "offline", roles)
    \/ \E id \in Ids, amount \in Amounts : SeqStart(1) /\ UpdateMemberCashCall(1, id, amount)
    \/ \E id \in Ids, status \in {"online", "invisible"} :
          SeqStart(1) /\ pubCount < MaxPub /\ PresenceUpdate(1, id, status, TRUE)
    \/ DbInsertMember(1)
    \/ DbReadCounts(1)
    \/ DbWriteStats(1)
    \/ DbUpdateMember(1)
    \/ DbUpdateMemberCash(1)

SpecFrame == Init /\ [][NextFrame]_vars

\* Stored statuses: presence events and the snapshot sync, one thing at a time.
NextStatus ==
    \/ \E id \in Ids, status \in RawStatuses, hasMember \in BOOLEAN :
          SeqStart(1) /\ pubCount < MaxPub /\ PresenceUpdate(1, id, status, hasMember)
    \/ \E guildOk \in BOOLEAN : SeqStart(1) /\ SyncMembersCall(1, guildOk)
    \/ \E upstream \in Upstreams, ok \in BOOLEAN : FetchMembers(1, upstream, ok)
    \/ DbInsertMember(1)
    \/ DbUpdateMember(1)
    \/ DbReadCounts(1)
    \/ DbWriteStats(1)

SpecStatus == Init /\ [][NextStatus]_vars

\* Leaving: members join, leave, are kicked, banned or all removed from the
\* dashboard, one thing at a time, while an observer may be connected.
NextLeave ==
    \/ Connect("w1")
    \/ \E id \in Ids : SeqStart(1) /\ pubCount < MaxPub /\ GuildMemberAdd(1, id)
    \/ \E id \in Ids : SeqStart(1) /\ pubCount < MaxPub /\ GuildMemberRemove(1, id)
    \/ \E id \in Ids, reason \in Reasons, sendInvite \in BOOLEAN, guildOk \in BOOLEAN :
          SeqStart(1) /\ pubCount < MaxPub /\ Len(kickLogs) < MaxLogs
              /\ KickMemberCall(1, id, reason, sendInvite, guildOk)
    \/ \E id \in Ids, reason \in Reasons, sendInvite \in BOOLEAN, guildOk \in BOOLEAN :
          SeqStart(1) /\ pubCount < MaxPub /\ BanMemberCall(1, id, reason, sendInvite, guildOk)
    \/ SeqStart(1) /\ RemoveAllMembersCall(1)
    \/ StoreStep(1)
    \/ DbDeleteAllMembers(1)
    \/ ModerationStep(1)

SpecLeave == Init /\ [][NextLeave]_vars

\* Moderation with an external dependency that may stall: every call that is
\* answered at all is answered eventually, a stalled notice call never is.
StallSteps ==
    \/ StoreStep(1)
    \/ Answered(1) /\ ModerationStep(1)

NextStall ==
    \/ \E id \in Ids : SeqStart(1) /\ pubCount < MaxPub /\ GuildMemberAdd(1, id)
    \/ \E id \in Ids, reason \in Reasons, sendInvite \in BOOLEAN, guildOk \in BOOLEAN :
          SeqStart(1) /\ pubCount < MaxPub /\ Len(kickLogs) < MaxLogs
              /\ KickMemberCall(1, id, reason, sendInvite, guildOk)
    \/ \E id \in Ids, reason \in Reasons, sendInvite \in BOOLEAN, guildOk \in BOOLEAN :
          SeqStart(1) /\ pubCount < MaxPub /\ BanMemberCall(1, id, reason, sendInvite, guildOk)
    \/ NoticeStalls(1)
    \/ StallSteps

SpecStall == Init /\ [][NextStall]_vars /\ WF_vars(StallSteps)

\* Role tags: members are provisioned and the two role routes are served, one
\* request at a time, while an observer may be connected.
NextTags ==
    \/ Connect("w1")
    \/ \E id \in Ids, roles \in RoleLists : SeqStart(1) /\ CreateMemberCall(1, id, "offline", roles)
    \/ \E id \in Ids, roleId \in Tags, guildOk \in BOOLEAN :
          SeqStart(1) /\ pubCount < MaxPub /\ AddRoleRouteCall(1, id, roleId, guildOk)
    \/ \E id \in Ids, roleId \in Tags, guildOk \in BOOLEAN :
          SeqStart(1) /\ pubCount < MaxPub /\ RemoveRoleRouteCall(1, id, roleId, guildOk)
    \/ \E outcome \in {"ok", "missing", "throw"} : FetchForRole(1, outcome)
    \/ \E ok \in BOOLEAN : MemberRolesAdd(1, ok)
    \/ \E ok \in BOOLEAN : MemberRolesRemove(1, ok)
    \/ DbGetMember(1)
    \/ DbUpdateMember(1)
    \/ DbInsertMember(1)
    \/ DbReadCounts(1)
    \/ DbWriteStats(1)

SpecTags == Init /\ [][NextTags]_vars

\* The member store behind the dashboard routes, on either storage class:
\* members are created, updated and deleted, balances set and changed, tags
\* added and removed, one call at a time.
SetAmounts == -1..MaxCash

InCashRange(id, amount) ==
    id \in DOMAIN members => members[id].cash + amount \in -MaxCash..MaxCash

NextStore ==
    \/ \E id \in Ids, roles \in RoleLists :
          SeqStart(1) /\ (CreateMemberCall(1, id, "offline", roles) \/ MemCreateMember(id, "offline", roles))
    \/ \E id \in Ids, status \in StoreStatuses :
          SeqStart(1) /\ (UpdateMemberCall(1, id, status) \/ MemUpdateMember(id, status))
    \/ \E id \in Ids : SeqStart(1) /\ (DeleteMemberCall(1, id) \/ MemDeleteMember(id))
    \/ \E id \in Ids, amount \in SetAmounts : SeqStart(1) /\ PutCashRoute(1, id, amount)
    \/ \E id \in Ids, amount \in Deltas :
          SeqStart(1) /\ InCashRange(id, amount) /\ AddCashRoute(1, id, amount)
    \/ \E id \in Ids, roleId \in Tags :
          SeqStart(1) /\ (AddMemberRoleCall(1, id, roleId) \/ MemAddMemberRole(id, roleId))
    \/ \E id \in Ids, roleId \in Tags :
          SeqStart(1) /\ (RemoveMemberRoleCall(1, id, roleId) \/ MemRemoveMemberRole(id, roleId))
    \/ StoreStep(1)
    \/ DbUpdateMember(1)
    \/ DbUpdateMemberCash(1)
    \/ DbAddMemberCash(1)
    \/ DbGetMember(1)

SpecStore == (Init \/ InitMem) /\ [][NextStore]_vars

\* The blocked words alone, on either storage class: words are added and rows
\* removed through the routes.
Terms == {t \in Texts : Len(t) \in 1..2}

NextWords ==
    \/ \E word \in Terms : AddBlockedWord(word)
    \/ \E i \in 1..MaxWords : RemoveBlockedWord(i)

SpecWords == (Init \/ InitMem) /\ [][NextWords]_vars

\* ---- the claims ---------------------------------------------------------
Moderation(s) == Finished(s) /\ task[s].op \in {"kick", "ban"}

StoreAsBefore(t) ==
    /\ members = t.pre.members
    /\ kickLogs = t.pre.kickLogs
    /\ stats = t.pre.stats
    /\ statsRow = t.pre.statsRow

NothingPublishedSince(t) ==
    /\ pubCount = t.pre.pubCount
    /\ \A w \in Sockets : \A i \in 1..Len(inbox[w]) : inbox[w][i].n <= t.pre.pubCount

\* C1: when the enforcement call (member.kick, guild.bans.create) fails, the
\* operation returns false, the member table, the action log and the aggregate
\* are what they were when it was called, and nothing has been published.
C1_EnforcementFailureAtomic ==
    \A s \in Slots :
        (Moderation(s) /\ Includes(task[s].did, "enforceFailed")) =>
            /\ task[s].res = "false"
            /\ StoreAsBefore(task[s])
            /\ NothingPublishedSince(task[s])

\* a failed enforcement on a member that is in the store, with an observer open
C1_Witness ==
    \E s \in Slots :
        /\ Moderation(s)
        /\ Includes(task[s].did, "enforceFailed")
        /\ task[s].id \in DOMAIN members
        /\ Receivers # {}

\* C2: once the enforcement call of kickMember has succeeded, the log entry is
\* written, then the record is deleted, then memberKicked is published once,
\* then true is returned; the store then has no record for the id and the log
\* holds the new entry.  (Stated for a member that was in the store.)
C2_EvictOrder ==
    \A s \in Slots :
        (/\ Finished(s)
         /\ task[s].op = "kick"
         /\ Includes(task[s].did, "enforce")
         /\ task[s].id \in DOMAIN task[s].pre.members) =>
            /\ task[s].did = <<"enforce", "log", "delete", "publish">>
            /\ task[s].res = "true"
            /\ task[s].id \notin DOMAIN members
            /\ Len(kickLogs) = Len(task[s].pre.kickLogs) + 1
            /\ kickLogs[Len(kickLogs)].memberId = task[s].id

\* C3: a banMember call that returns true has appended exactly one log entry
\* for the member, after the enforcement and before the deletion and the
\* publish.  (Stated for a member that was in the store.)
C3_ExileLogs ==
    \A s \in Slots :
        (/\ Finished(s)
         /\ task[s].op = "ban"
         /\ task[s].res = "true"
         /\ task[s].id \in DOMAIN task[s].pre.members) =>
            /\ task[s].did = <<"enforce", "log", "delete", "publish">>
            /\ Len(kickLogs) = Len(task[s].pre.kickLogs) + 1
            /\ kickLogs[Len(kickLogs)].memberId = task[s].id

\* C4: whenever kickMember or banMember returns false, the member table and
\* the action log are what they were when it was called and nothing has been
\* published.
C4_NoPartialState ==
    \A s \in Slots :
        (Moderation(s) /\ task[s].res = "false") =>
            /\ members = task[s].pre.members
            /\ kickLogs = task[s].pre.kickLogs
            /\ NothingPublishedSince(task[s])

\* C5: once the create, delete and remove-all calls made so far have all
\* returned, totalMembers (as getStats reports it) is the number of member
\* records.
C5_TotalIsLiveCount ==
    NoneRunning => StatsView.totalMembers = Cardinality(DOMAIN members)

MutatingOps == {"createMember", "updateMember", "deleteMember", "updateMemberCash",
                "addMemberCash", "addMemberRole", "removeMemberRole"}

\* C6: when a mutating store operation has just returned, onlineMembers is
\* the number of records with status online and activeToday the number of
\* records whose lastSeen lies inside the last day.
C6_RecomputedOnReturn ==
    \A s \in Slots :
        (/\ Finished(s)
         /\ task[s].op \in MutatingOps
         /\ task[s].res \in {"member", "true"}
         /\ task[s].at = now) =>
            /\ StatsView.onlineMembers = Cardinality(OnlineIn(members))
            /\ StatsView.activeToday = Cardinality(ActiveAt(members, now))

\* C7: every observer is sent the envelopes in the order of the publishes,
\* and an observer that is registered and open has been sent every publish
\* since it registered.
C7_PerObserverOrder ==
    /\ \A w \in Sockets : \A i, j \in 1..Len(inbox[w]) :
          i < j => inbox[w][i].n < inbox[w][j].n
    /\ \A w \in Receivers : \A m \in (inbox[w][1].n + 1)..pubCount :
          \E i \in 1..Len(inbox[w]) : inbox[w][i].n = m

\* an open observer that has been sent two publishes
C7_Witness ==
    \E w \in Receivers : Len(inbox[w]) >= 3 /\ inbox[w][1].type = "connected"

\* C8: in every publish, each registered observer with an open socket is sent
\* the envelope, and each registered observer the envelope cannot be delivered
\* to (its socket is not open) is out of the registry when the publish is over.
C8_FailurePrunes ==
    [][pubCount' = pubCount + 1 =>
        \A w \in wsClients :
            /\ wsState[w] = "OPEN" =>
                  /\ Len(inbox'[w]) = Len(inbox[w]) + 1
                  /\ inbox'[w][Len(inbox'[w])].n = pubCount'
            /\ wsState[w] # "OPEN" => w \notin wsClients']_vars

\* C9: a join event for an id followed by a leave event for the same id, both
\* handlers finished (the join without error): the store has no record for
\* the id and memberJoined was published before memberLeft.
C9_ArrivalOrder ==
    \A s1, s2 \in Slots :
        (/\ s1 < s2
         /\ Finished(s1) /\ task[s1].op = "join" /\ task[s1].res = "ok"
         /\ Finished(s2) /\ task[s2].op = "leave"
         /\ task[s1].id = task[s2].id) =>
            /\ task[s1].id \notin DOMAIN members
            /\ task[s1].pubAt < task[s2].pubAt

\* C10: two concurrent addTag requests for the same member with different
\* tags, both answered with the record: the member's tags contain both.
C10_BothTagsKept ==
    \A s1, s2 \in Slots :
        (/\ s1 # s2
         /\ Finished(s1) /\ task[s1].op = "addRoleRoute" /\ task[s1].res = "member"
         /\ Finished(s2) /\ task[s2].op = "addRoleRoute" /\ task[s2].res = "member"
         /\ task[s1].id = task[s2].id
         /\ task[s1].arg # task[s2].arg
         /\ task[s1].id \in DOMAIN members) =>
            /\ Includes(members[task[s1].id].roles, task[s1].arg)
            /\ Includes(members[task[s1].id].roles, task[s2].arg)

\* a filter task whose match has been decided
Filtered(s) == task[s].op = "filter" /\ task[s].ret \in {"match", "nomatch"}

\* C11: a message that matched a blocked word has messageFiltered published
\* by the time its handler has ended, whether or not message.delete() and the
\* channel notice succeeded.
C11_PublishedWhenMatched ==
    \A s \in Slots :
        (Finished(s) /\ Filtered(s) /\ task[s].ret = "match") =>
            /\ Includes(task[s].did, "publish")
            /\ task[s].pubAt = task[s].pre.pubCount + 1

\* two characters that are the same letter, whatever their case
SameLetter(a, b) == a = b \/ {a, b} = {"a", "A"}

\* the word occurs in the text as a run of consecutive letters, case apart
OccursIn(word, text) ==
    \E i \in 1..(Len(text) + 1) :
        /\ i + Len(word) - 1 <= Len(text)
        /\ \A j \in 1..Len(word) : SameLetter(text[i + j - 1], word[j])

\* C12: the filter reports a match exactly when some blocked word occurs in
\* the message text as a substring, case apart; a message without a match is
\* not removed, gets no notice and nothing is published for it.
C12_MatchIsSubstring ==
    \A s \in Slots :
        Filtered(s) =>
            /\ task[s].ret = "match" <=> \E w \in task[s].words : OccursIn(w, task[s].content)
            /\ (Finished(s) /\ task[s].ret = "nomatch") =>
                  /\ task[s].did = <<>>
                  /\ pubCount = task[s].pre.pubCount

\* a match that needs the case folding, and a message handled without a match
\* while words were blocked
C12_Witness ==
    \E s \in Slots :
        /\ Finished(s) /\ Filtered(s)
        /\ task[s].ret = "match"
        /\ Includes(task[s].did, "publish")
        /\ \A w \in task[s].words : ~StringIncludes(task[s].content, w)
        /\ Len(task[s].content) > 1

\* C13: when syncMembers has ended (the member list having been fetched),
\* every upstream member that is no bot has a record in the store, whether or
\* not it had one before.
C13_SyncUpserts ==
    \A s \in Slots :
        (Finished(s) /\ task[s].op = "sync" /\ task[s].res \in {"ok", "caught"}
            /\ task[s].upstream # <<>>) =>
            \A i \in 1..Len(task[s].upstream) :
                ~task[s].upstream[i].bot => task[s].upstream[i].id \in DOMAIN members

\* C14: two runs of syncMembers in a row with the same upstream member list:
\* the member table after the second run is the member table after the first.
C14_SyncIdempotent ==
    \A s1, s2 \in Slots :
        (/\ s1 < s2
         /\ Finished(s1) /\ task[s1].op = "sync" /\ task[s1].res \in {"ok", "caught"}
         /\ Finished(s2) /\ task[s2].op = "sync" /\ task[s2].res \in {"ok", "caught"}
         /\ task[s1].upstream = task[s2].upstream) =>
            members = task[s2].pre.members

Presence(s) == Finished(s) /\ task[s].op = "presence"

\* C15: a presence event for an id that is not in the store leaves the member
\* table and the aggregate as they were and publishes nothing; an event that
\* published memberStatusUpdate found a record, and the envelope carries that
\* record as updated.
C15_PresenceOnlyForKnown ==
    \A s \in Slots :
        Presence(s) =>
            /\ task[s].id \notin DOMAIN task[s].pre.members =>
                  /\ StoreAsBefore(task[s])
                  /\ NothingPublishedSince(task[s])
            /\ Includes(task[s].did, "publish") =>
                  /\ task[s].id \in DOMAIN task[s].pre.members
                  /\ pubCount = task[s].pre.pubCount + 1
                  /\ task[s].row = members[task[s].id]
                  /\ task[s].row.status = task[s].arg

\* a presence event for an absent id while another member is in the store
C15_Witness ==
    \E s \in Slots :
        /\ Presence(s)
        /\ task[s].res = "ok"
        /\ task[s].id \notin DOMAIN task[s].pre.members
        /\ members # NoMembers
        /\ now > 0

\* C16: mapPresenceStatus maps online, idle and dnd to themselves and every
\* other input to offline, so every stored status is one of online, idle, dnd
\* and offline, and a presence event stores the mapped status.
C16_StatusMappingTotal ==
    /\ \A id \in DOMAIN members : members[id].status \in Statuses
    /\ \A s \in Slots :
          (Presence(s) /\ task[s].ret = "member") =>
              LET raw == task[s].content[1] IN
              task[s].row.status = IF raw \in {"online", "idle", "dnd"} THEN raw ELSE "offline"

\* a presence event with a status outside the four has been stored as offline
C16_Witness ==
    \E s \in Slots :
        /\ Presence(s) /\ task[s].ret = "member"
        /\ task[s].content[1] \in {"invisible", "undefined", "streaming"}
        /\ members[task[s].id].status = "offline"
        /\ task[s].pre.members[task[s].id].status # "offline"

\* what getStats would have reported when the task was started
StatsViewBefore(t) == IF t.pre.statsRow THEN t.pre.stats ELSE ZeroStats

\* C17: a join event for an id that is not in the store adds one record with
\* status offline, no tags and balance 0 and leaves the other records alone,
\* totalMembers grows by one, and memberJoined is published once, after the
\* record was created.
C17_JoinAddsOne ==
    \A s \in Slots :
        (Finished(s) /\ task[s].op = "join" /\ task[s].id \notin DOMAIN task[s].pre.members) =>
            /\ DOMAIN members = DOMAIN task[s].pre.members \cup {task[s].id}
            /\ \A i \in DOMAIN task[s].pre.members : members[i] = task[s].pre.members[i]
            /\ members[task[s].id].status = "offline"
            /\ members[task[s].id].roles = <<>>
            /\ members[task[s].id].cash = 0
            /\ StatsView.totalMembers = StatsViewBefore(task[s]).totalMembers + 1
            /\ task[s].did = <<"create", "publish">>
            /\ pubCount = task[s].pre.pubCount + 1

\* the last envelope sent to socket w
LastSent(w) == inbox[w][Len(inbox[w])]

\* C18: a leave event ends without an error; afterwards the id has no record
\* and the other records are as before (nothing changes when the id had no
\* record), and the memberLeft envelope carries the id and nothing else.
C18_LeaveDeletes ==
    \A s \in Slots :
        (Finished(s) /\ task[s].op = "leave") =>
            /\ task[s].res = "ok"
            /\ members = Remove(task[s].pre.members, task[s].id)
            /\ pubCount = task[s].pre.pubCount + 1
            /\ \A w \in Sockets :
                  (inbox[w] # <<>> /\ LastSent(w).type # "connected"
                      /\ LastSent(w).n = pubCount) =>
                          /\ LastSent(w).type = "memberLeft"
                          /\ LastSent(w).data = [id |-> task[s].id]

RoleRoute(s) == task[s].op \in {"addRoleRoute", "removeRoleRoute"}

\* C19: when addMemberRole or removeMemberRole of the bot reports failure (no
\* guild, member or role not found, or the external role call failed), the
\* request is answered with a failure, the store is what it was when the
\* request came in, and nothing has been published.
C19_RoleFailureTouchesNothing ==
    \A s \in Slots :
        (Finished(s) /\ RoleRoute(s) /\ task[s].res = "false") =>
            /\ ~Includes(task[s].did, "publish")
            /\ StoreAsBefore(task[s])
            /\ NothingPublishedSince(task[s])

\* the external role call failed for a member in the store, an observer open
C19_Witness ==
    \E s \in Slots :
        /\ Finished(s) /\ RoleRoute(s) /\ task[s].res = "false"
        /\ Includes(task[s].did, "enforceFailed")
        /\ task[s].id \in DOMAIN members
        /\ Receivers # {}

\* C20: in the state in which memberRoleAdded (memberRoleRemoved) for a member
\* of the store and a tag has just been published, the member's record holds
\* (no longer holds) the tag.
C20_ReflectBeforeBroadcast ==
    \A s \in Slots :
        (/\ RoleRoute(s)
         /\ At(s, "getMember")
         /\ task[s].pubAt = pubCount
         /\ task[s].id \in DOMAIN members) =>
            (Includes(members[task[s].id].roles, task[s].arg) <=> task[s].op = "addRoleRoute")

\* a store operation op that has returned
Done(s, op) == Finished(s) /\ task[s].op = op

Known(s) == task[s].id \in DOMAIN task[s].pre.members

\* C21: an addBalance call on a member adds its delta to the balance the
\* member had, negative deltas included and with no floor; so after any
\* sequence of calls the balance is the initial balance plus the sum of the
\* deltas.
C21_AddBalanceSums ==
    \A s \in Slots :
        (Done(s, "addMemberCash") /\ Known(s)) =>
            /\ task[s].res = "member"
            /\ members[task[s].id].cash = task[s].pre.members[task[s].id].cash + task[s].amount

\* a balance that a negative delta has taken below zero
C21_Witness ==
    \E s \in Slots :
        /\ Done(s, "addMemberCash") /\ Known(s)
        /\ task[s].amount < 0
        /\ members[task[s].id].cash < 0

\* C22: setBalance with a negative amount is rejected and the store is as
\* before; with an amount of at least 0 on a member of the store the balance
\* is that amount, whatever it was before.
C22_SetBalanceOverrides ==
    \A s \in Slots :
        Done(s, "updateMemberCash") =>
            /\ task[s].amount < 0 =>
                  /\ task[s].res = "invalid"
                  /\ StoreAsBefore(task[s])
            /\ (task[s].amount >= 0 /\ Known(s)) =>
                  /\ task[s].res = "member"
                  /\ members[task[s].id].cash = task[s].amount

\* a balance that addBalance had made negative is set to a given amount
C22_Witness ==
    \E s \in Slots :
        /\ Done(s, "updateMemberCash") /\ Known(s)
        /\ task[s].amount >= 0
        /\ task[s].pre.members[task[s].id].cash < 0
        /\ members[task[s].id].cash = task[s].amount

ByIdOps == {"updateMember", "deleteMember", "updateMemberCash", "addMemberCash",
            "addMemberRole", "removeMemberRole"}

\* C23: update, delete, setBalance, addBalance, addTag and removeTag for an id
\* that has no record return undefined (delete: false) without an error, and
\* the member records and the aggregate are as before.
C23_NotFoundIsSignalled ==
    \A s \in Slots :
        (Finished(s) /\ task[s].op \in ByIdOps /\ ~Known(s) /\ task[s].res # "invalid") =>
            /\ task[s].res = IF task[s].op = "deleteMember" THEN "false" ELSE "undefined"
            /\ StoreAsBefore(task[s])

\* an operation on an absent id while the store holds another member
C23_Witness ==
    \E s \in Slots :
        /\ Finished(s) /\ task[s].op \in ByIdOps /\ ~Known(s)
        /\ task[s].res \in {"false", "undefined"}
        /\ members # NoMembers

NoDuplicates(seq) == \A i, j \in 1..Len(seq) : seq[i] = seq[j] => i = j

\* C24: no member's tags hold a tag twice; addTag of a tag the member has and
\* removeTag of a tag the member does not have leave the tags as they were.
C24_TagsAreASet ==
    /\ \A id \in DOMAIN members : NoDuplicates(members[id].roles)
    /\ \A s \in Slots :
          (Finished(s) /\ task[s].op \in {"addMemberRole", "removeMemberRole"} /\ Known(s)) =>
              LET before == task[s].pre.members[task[s].id].roles IN
              (Includes(before, task[s].arg) <=> task[s].op = "addMemberRole") =>
                  members[task[s].id].roles = before

\* addTag has been called with a tag the member already had
C24_Witness ==
    \E s \in Slots :
        /\ Done(s, "addMemberRole") /\ Known(s)
        /\ task[s].res = "member"
        /\ Includes(task[s].pre.members[task[s].id].roles, task[s].arg)

\* C25: no two rows of the blocked words hold the same word: adding a word
\* that is already there is refused and leaves the rows as they were.
C25_BlockedTermsUnique == NoDuplicates(blockedWords)

\* C26: every step leaves the action log as it is or appends one entry to
\* it, and an entry is appended only by a kickMember or banMember call whose
\* enforcement call has succeeded, for the member of that call.
C26_LogAppendOnly ==
    [][\/ kickLogs' = kickLogs
       \/ /\ Len(kickLogs') = Len(kickLogs) + 1
          /\ SubSeq(kickLogs', 1, Len(kickLogs)) = kickLogs
          /\ \E s \in Slots :
                /\ task[s].op \in {"kick", "ban"}
                /\ Includes(task[s].did, "enforce")
                /\ kickLogs'[Len(kickLogs')].memberId = task[s].id]_vars

\* a leave event has been handled while the log held an entry
C26_Witness ==
    \E s \in Slots : Done(s, "leave") /\ kickLogs # <<>>

\* the publish envelopes an observer has received, in the order of arrival
Publishes(w) == SelectSeq(inbox[w], LAMBDA e : e.type # "connected")

\* C27: an observer receives no envelope published before it registered:
\* `connected` is the first envelope of its inbox and every other envelope is
\* a publish issued after the registration and no later than the last one.
C27_NoReplay ==
    \A w \in Sockets :
        inbox[w] # <<>> =>
            /\ inbox[w][1].type = "connected"
            /\ \A i \in 2..Len(inbox[w]) :
                  /\ inbox[w][i].type # "connected"
                  /\ inbox[w][i].n > inbox[w][1].n
                  /\ inbox[w][i].n <= pubCount

\* an observer that registered after a publish has received a later one
C27_Witness ==
    \E w \in Sockets :
        /\ Len(inbox[w]) >= 2
        /\ inbox[w][1].n >= 1

\* C28: an observer receives the envelope of a publish at most once, also
\* when its handle has been registered more than once.
C28_AtMostOnce ==
    \A w \in Sockets :
        \A i, j \in 1..Len(Publishes(w)) :
            Publishes(w)[i].n = Publishes(w)[j].n => i = j

\* a handle registered twice has received the envelopes of two publishes
C28_Witness ==
    \E w \in Sockets :
        /\ closeListeners[w] >= 2
        /\ Len(Publishes(w)) >= 2

\* C29: on DatabaseStorage with the stats row present, once no create or
\* delete operation is in flight totalMembers is the number of member records.
C29_CountMatchesRecords ==
    NoneRunning => stats.totalMembers = Cardinality(DOMAIN members)

\* C30: a kickMember or banMember call whose invite or direct notice failed
\* and whose enforcement call and later steps succeeded, so that it returned
\* true, has logged, deleted and published, in that order.
C30_NoticeBestEffort ==
    \A s \in Slots :
        (/\ Finished(s)
         /\ task[s].op \in {"kick", "ban"}
         /\ task[s].notice = "failed"
         /\ task[s].res = "true") =>
            task[s].did = <<"enforce", "log", "delete", "publish">>

\* C31: a kickMember or banMember call whose invite or notice call never
\* completes still issues its enforcement call and returns.
C31_StallDoesNotDelay ==
    \A s \in Slots :
        (task[s].op \in {"kick", "ban"} /\ task[s].notice = "stalled")
            ~> (/\ Finished(s)
                /\ Includes(task[s].did, "enforce") \/ Includes(task[s].did, "enforceFailed"))

\* C32: the undelivered envelopes of a registered observer stay below what the
\* hub can have sent it: an observer that drains nothing is removed before
\* every envelope sent to it is still pending.
C32_BoundedBacklog ==
    \A w \in wsClients : Pending(w) <= MaxPub

\* C33: deleting a member record that log entries refer to succeeds and
\* leaves the entries: after a kickMember call that wrote its log entry, and
\* after a leave event for a stored member with log entries, the member has no
\* record and the log still holds the entries for it.
C33_WeakReference ==
    \A s \in Slots :
        /\ (Finished(s) /\ task[s].op = "kick" /\ Includes(task[s].did, "log")) =>
              /\ task[s].id \notin DOMAIN members
              /\ Referenced(kickLogs, task[s].id)
        /\ (/\ Finished(s)
            /\ task[s].op = "leave"
            /\ task[s].id \in DOMAIN task[s].pre.members
            /\ Referenced(task[s].pre.kickLogs, task[s].id)) =>
              /\ task[s].id \notin DOMAIN members
              /\ kickLogs = task[s].pre.kickLogs

Recomputing == {"createMember", "deleteMember", "removeAllMembers"}

\* C34: when a call has just recomputed the aggregate at time now, activeToday
\* is the number of members whose lastSeen is strictly later than now minus a
\* day: a member seen exactly a day ago is not counted, one seen a time unit
\* later is.
C34_StrictWindow ==
    \A s \in Slots :
        (/\ Finished(s)
         /\ task[s].op \in Recomputing
         /\ task[s].res \in {"member", "true"}
         /\ task[s].at = now) =>
            stats.activeToday =
                Cardinality({i \in DOMAIN members : members[i].lastSeen + Day > now})

\* the aggregate was recomputed with one member seen exactly a day ago and one
\* seen a time unit later
C34_Witness ==
    \E s \in Slots, a, b \in DOMAIN members :
        /\ Finished(s)
        /\ task[s].op \in Recomputing
        /\ task[s].res \in {"member", "true"}
        /\ task[s].at = now
        /\ members[a].lastSeen = now - Day
        /\ members[b].lastSeen = now - Day + 1
        /\ stats.activeToday = 1

\* C35: a message-post event leaves the member table, the action log and the
\* aggregate as they were when it arrived, and a bot's message is not
\* evaluated: nothing is removed, no notice is sent and nothing is published
\* for it, also when its text contains a blocked word.
C35_PostTouchesNothing ==
    \A s \in Slots :
        task[s].op = "filter" =>
            /\ StoreAsBefore(task[s])
            /\ task[s].arg = "bot" =>
                  /\ Finished(s)
                  /\ task[s].did = <<>>
                  /\ NothingPublishedSince(task[s])

\* a bot's message with a blocked word in it has been handled with a member in
\* the store
C35_Witness ==
    \E s \in Slots :
        /\ Done(s, "filter")
        /\ DOMAIN members # {}
        /\ \E i \in 1..Len(blockedWords) : OccursIn(blockedWords[i], task[s].content)
        /\ task[s].arg = "bot"

\* C36: a presence event for a member of the store changes only that
\* member's status and lastSeen: its role label, role tags and balance are
\* what they were, no record is added or removed and every other record is
\* unchanged.
C36_PresenceFrame ==
    \A s \in Slots :
        (Presence(s) /\ Known(s) /\ task[s].ret = "member") =>
            /\ DOMAIN members = DOMAIN task[s].pre.members
            /\ \A i \in DOMAIN members \ {task[s].id} : members[i] = task[s].pre.members[i]
            /\ members[task[s].id].role = task[s].pre.members[task[s].id].role
            /\ members[task[s].id].roles = task[s].pre.members[task[s].id].roles
            /\ members[task[s].id].cash = task[s].pre.members[task[s].id].cash

\* the status and lastSeen of a member with a tag and a balance have changed
\* while another member is in the store
C36_Witness ==
    \E s \in Slots :
        /\ Presence(s) /\ Known(s) /\ task[s].ret = "member"
        /\ members[task[s].id].roles # <<>>
        /\ members[task[s].id].cash > 0
        /\ members[task[s].id].status # task[s].pre.members[task[s].id].status
        /\ members[task[s].id].lastSeen > task[s].pre.members[task[s].id].lastSeen
        /\ DOMAIN members # {task[s].id}

\* C37: after a snapshot sync or a join event, every member that had a record
\* before it has the balance it had.
C37_ResightKeepsBalance ==
    \A s \in Slots :
        (Finished(s) /\ task[s].op \in {"sync", "join"}) =>
            \A i \in DOMAIN task[s].pre.members :
                i \in DOMAIN members => members[i].cash = task[s].pre.members[i].cash

\* C38: when a leave event for a member has been handled while syncMembers
\* was iterating over the list it had fetched, and both have finished, the
\* store has no record for the member.
C38_NoResurrection ==
    \A s1, s2 \in Slots :
        (/\ s1 < s2
         /\ Finished(s1) /\ task[s1].op = "sync"
         /\ Finished(s2) /\ task[s2].op = "leave") =>
            task[s2].id \notin DOMAIN members

\* C39: `connected` is the first envelope every observer receives: a socket
\* that is registered has been sent it already, and no publish stands before
\* it in what the socket was sent.
C39_ConnectedFirst ==
    \A w \in Sockets :
        /\ w \in wsClients => inbox[w] # <<>>
        /\ \A i \in 1..Len(inbox[w]) : inbox[w][i].type = "connected" <=> i = 1

\* an observer has been sent `connected` and then a publish
C39_Witness ==
    \E w \in Sockets :
        /\ Len(inbox[w]) >= 2
        /\ inbox[w][1].type = "connected"
        /\ inbox[w][2].type \in {"memberJoined", "memberLeft"}

====
